---- MODULE Spec2Model ----
(***************************************************************************)
(* In-memory entity repositories of the TODO application:                  *)
(* app/common/base.py (BaseRepository), app/common/exceptions.py, the      *)
(* entity models' validate() and the domain repositories' create().        *)
(*                                                                         *)
(* Text values are sequences of one-character strings, so that len(),      *)
(* strip(), lower() and isalnum() are computed character by character.     *)
(* A repository's _items dict is a sequence of <<key, value>> entries in   *)
(* insertion order (Python dicts iterate in insertion order).              *)
(*                                                                         *)
(* base.py names typing.Tuple in an annotation (line 32) but imports it    *)
(* only at line 150; the model describes the classes as they behave once   *)
(* the module is loaded (annotations not evaluated at definition time).    *)
(***************************************************************************)
EXTENDS Integers, Sequences, FiniteSets, TLC

\* Ids are issued while _next_id <= MaxId (the counter itself is unbounded).
MaxId == 3

\* The clock is read while it shows at most MaxTime
MaxTime == 1

\* A tag's usage is counted up to MaxUsage
MaxUsage == 2

\* ------------------------------------------------------------------------
\* Text helpers (Python str methods)
\* ------------------------------------------------------------------------

\* s * n for a one-character string s
Rep(c, n) == [i \in 1..n |-> c]

UpperChars == {"A", "B", "F"}

LowerChars == {"a", "b", "f", "g"}

DigitChars == {"0", "1"}

SpaceChars == {" "}

\* str.lower() on one character
LowerChar(c) ==
  CASE c = "A" -> "a"
    [] c = "B" -> "b"
    [] c = "F" -> "f"
    [] OTHER -> c

\* str.lower()
lower(s) == [i \in 1..Len(s) |-> LowerChar(s[i])]

\* str.isalnum(): non-empty and every character a letter or a digit
isalnum(s) ==
  /\ Len(s) > 0
  /\ \A i \in 1..Len(s) : s[i] \in UpperChars \cup LowerChars \cup DigitChars

RECURSIVE lstrip(_)
lstrip(s) ==
  IF Len(s) > 0 /\ Head(s) \in SpaceChars THEN lstrip(Tail(s)) ELSE s

RECURSIVE rstrip(_)
rstrip(s) ==
  IF Len(s) > 0 /\ s[Len(s)] \in SpaceChars
  THEN rstrip(SubSeq(s, 1, Len(s) - 1))
  ELSE s

\* str.strip()
strip(s) == rstrip(lstrip(s))

\* str.startswith(p)
startswith(s, p) == Len(s) >= Len(p) /\ SubSeq(s, 1, Len(p)) = p

\* Python None
NoneVal == [none |-> TRUE]

\* ------------------------------------------------------------------------
\* Exceptions (app/common/exceptions.py)
\* ------------------------------------------------------------------------

\* An empty details dict
NoDetails == << >>

AppException(type, message, error_code, details) ==
  [type |-> type, message |-> message, error_code |-> error_code,
   details |-> details]

ValidationError(message) ==
  AppException("ValidationError", message, "VALIDATION_ERROR", NoDetails)

NotFoundError(message, resource_type) ==
  AppException("NotFoundError", message, "NOT_FOUND",
               [resource_type |-> resource_type])

ConflictError(message) ==
  AppException("ConflictError", message, "CONFLICT", NoDetails)

\* A built-in exception: it has no error_code and no details.
BuiltinError(type, message) ==
  [type |-> type, message |-> message, error_code |-> NoneVal,
   details |-> NoDetails]

\* No exception was raised
NoError == [type |-> "none", message |-> << >>, error_code |-> NoneVal,
            details |-> NoDetails]

\* ------------------------------------------------------------------------
\* Entities and their validate()
\* ------------------------------------------------------------------------

VARIABLES
  now,       \* the clock, as the last datetime.now() of a call showed it
  obj        \* an entity object the caller holds outside any repository

\* datetime.now(); the clock is taken not to run backwards. A constructor
\* is taken to read it once; a method is given the readings it makes
datetime_now == now

\* An optional datetime: None, or the datetime t
NoTime == << >>

At(t) == <<t>>

Task(task_id, title, description) ==
  [id |-> task_id, title |-> title, description |-> description,
   status |-> "todo", priority |-> "medium", due_date |-> NoTime,
   tags |-> << >>, completed_at |-> NoTime, created_at |-> datetime_now,
   updated_at |-> datetime_now]

\* Variant: the length limit is tested with >= instead of >
TaskValidate_limit_off_by_one(self) ==
  IF Len(self.title) = 0 \/ Len(strip(self.title)) = 0
  THEN [ok |-> FALSE, error |-> <<"Title is required">>]
  ELSE IF Len(self.title) >= 255
  THEN [ok |-> FALSE, error |-> <<"Title cannot exceed 255 characters">>]
  ELSE IF Len(self.description) > 2000
  THEN [ok |-> FALSE, error |-> <<"Description cannot exceed 2000 characters">>]
  ELSE [ok |-> TRUE, error |-> NoneVal]

TaskValidate(self) ==
  IF Len(self.title) = 0 \/ Len(strip(self.title)) = 0
  THEN [ok |-> FALSE, error |-> <<"Title is required">>]
  ELSE IF Len(self.title) > 255
  THEN [ok |-> FALSE, error |-> <<"Title cannot exceed 255 characters">>]
  ELSE IF Len(self.description) > 2000
  THEN [ok |-> FALSE, error |-> <<"Description cannot exceed 2000 characters">>]
  ELSE [ok |-> TRUE, error |-> NoneVal]

TaskStatuses == {"todo", "in_progress", "done", "blocked"}

\* Task.add_tag(tag); t is its reading of the clock
Task_add_tag(self, tag, t) ==
  IF \A i \in 1..Len(self.tags) : self.tags[i] # tag
  THEN [self EXCEPT !.tags = Append(self.tags, tag), !.updated_at = t]
  ELSE self

Task_mark_as_done_first_completion(self, t1, t2) ==
  [self EXCEPT !.status = "done",
               !.completed_at = IF self.completed_at = NoTime THEN At(t1)
                                ELSE self.completed_at,
               !.updated_at = t2]

\* Task.mark_as_done(); t1 and t2 are its two readings of the clock
Task_mark_as_done(self, t1, t2) ==
  [self EXCEPT !.status = "done", !.completed_at = At(t1), !.updated_at = t2]

Task_mark_as_in_progress_reopens(self, t) ==
  [self EXCEPT !.status = "in_progress", !.completed_at = NoTime,
               !.updated_at = t]

\* Task.mark_as_in_progress(); t is its reading of the clock
Task_mark_as_in_progress(self, t) ==
  [self EXCEPT !.status = "in_progress", !.updated_at = t]

Task_is_overdue_at_due_date(self, t) ==
  IF self.due_date # NoTime /\ self.status # "done"
  THEN t >= self.due_date[1]
  ELSE FALSE

\* Task.is_overdue(); t is its reading of the clock
Task_is_overdue(self, t) ==
  IF self.due_date # NoTime /\ self.status # "done"
  THEN t > self.due_date[1]
  ELSE FALSE

\* members: [owner_id] if owner_id else []
Project(project_id, name, description, owner_id) ==
  [id |-> project_id, name |-> name, description |-> description,
   owner_id |-> owner_id, status |-> "planning",
   members |-> IF owner_id # 0 THEN <<owner_id>> ELSE << >>,
   created_at |-> datetime_now, updated_at |-> datetime_now]

ProjectValidate(self) ==
  IF Len(self.name) = 0 \/ Len(strip(self.name)) = 0
  THEN [ok |-> FALSE, error |-> <<"Project name is required">>]
  ELSE IF Len(self.name) > 100
  THEN [ok |-> FALSE, error |-> <<"Project name cannot exceed 100 characters">>]
  ELSE IF Len(self.description) > 1000
  THEN [ok |-> FALSE, error |-> <<"Description cannot exceed 1000 characters">>]
  ELSE [ok |-> TRUE, error |-> NoneVal]

\* x in list
In(x, list) == \E i \in 1..Len(list) : list[i] = x

\* list.remove(x): the list without the first x
Remove(list, x) ==
  LET i == CHOOSE j \in 1..Len(list) :
             list[j] = x /\ \A h \in 1..(j - 1) : list[h] # x
  IN  [h \in 1..(Len(list) - 1) |-> IF h < i THEN list[h] ELSE list[h + 1]]

Project_add_member_unchecked(self, user_id, t) ==
  [self |-> [self EXCEPT !.members = Append(self.members, user_id),
                         !.updated_at = t],
   ret |-> TRUE]

Project_add_member_always_touches(self, user_id, t) ==
  IF ~In(user_id, self.members)
  THEN [self |-> [self EXCEPT !.members = Append(self.members, user_id),
                              !.updated_at = t],
        ret |-> TRUE]
  ELSE [self |-> [self EXCEPT !.updated_at = t], ret |-> FALSE]

\* Project.add_member(user_id): the project after the call and what the
\* call returns; t is its reading of the clock
Project_add_member(self, user_id, t) ==
  IF ~In(user_id, self.members)
  THEN [self |-> [self EXCEPT !.members = Append(self.members, user_id),
                              !.updated_at = t],
        ret |-> TRUE]
  ELSE [self |-> self, ret |-> FALSE]

Project_remove_member_also_owner(self, user_id, t) ==
  IF In(user_id, self.members)
  THEN [self |-> [self EXCEPT !.members = Remove(self.members, user_id),
                              !.updated_at = t],
        ret |-> TRUE]
  ELSE [self |-> self, ret |-> FALSE]

\* Project.remove_member(user_id)
Project_remove_member(self, user_id, t) ==
  IF user_id # self.owner_id /\ In(user_id, self.members)
  THEN [self |-> [self EXCEPT !.members = Remove(self.members, user_id),
                              !.updated_at = t],
        ret |-> TRUE]
  ELSE [self |-> self, ret |-> FALSE]

Category(category_id, name, color) ==
  [id |-> category_id, name |-> name, color |-> color, task_count |-> 0,
   created_at |-> datetime_now, updated_at |-> datetime_now]

HexDigits ==
  {"0", "1", "2", "3", "4", "5", "6", "7", "8", "9",
   "a", "b", "c", "d", "e", "f", "A", "B", "C", "D", "E", "F"}

_is_valid_hex_color(color) ==
  IF ~startswith(color, <<"#">>)
  THEN FALSE
  ELSE LET hex_part == Tail(color)
       IN  Len(hex_part) = 6 /\ \A i \in 1..Len(hex_part) : hex_part[i] \in HexDigits

CategoryValidate(self) ==
  IF Len(self.name) = 0 \/ Len(strip(self.name)) = 0
  THEN [ok |-> FALSE, error |-> <<"Category name is required">>]
  ELSE IF Len(self.name) > 50
  THEN [ok |-> FALSE, error |-> <<"Category name cannot exceed 50 characters">>]
  ELSE IF ~_is_valid_hex_color(self.color)
  THEN [ok |-> FALSE, error |-> <<"Invalid hex color format">>]
  ELSE [ok |-> TRUE, error |-> NoneVal]

Tag(tag_id, name) ==
  [id |-> tag_id, name |-> name, usage_count |-> 0,
   created_at |-> datetime_now, updated_at |-> datetime_now]

TagValidate(self) ==
  IF Len(self.name) = 0 \/ Len(strip(self.name)) = 0
  THEN [ok |-> FALSE, error |-> <<"Tag name is required">>]
  ELSE IF Len(self.name) > 30
  THEN [ok |-> FALSE, error |-> <<"Tag name cannot exceed 30 characters">>]
  ELSE IF ~isalnum(self.name)
  THEN [ok |-> FALSE, error |-> <<"Tag name must be alphanumeric">>]
  ELSE [ok |-> TRUE, error |-> NoneVal]

\* Tag.increment_usage(); t is its reading of the clock
Tag_increment_usage(self, t) ==
  [self EXCEPT !.usage_count = self.usage_count + 1, !.updated_at = t]

Tag_decrement_usage_unguarded(self, t) ==
  [self EXCEPT !.usage_count = self.usage_count - 1, !.updated_at = t]

\* Tag.decrement_usage()
Tag_decrement_usage(self, t) ==
  IF self.usage_count > 0
  THEN [self EXCEPT !.usage_count = self.usage_count - 1, !.updated_at = t]
  ELSE self

NotificationTypes ==
  {"task_assigned", "task_completed", "task_due_soon", "project_updated",
   "comment_added"}

Notification(notification_id, user_id, message, notification_type) ==
  [id |-> notification_id, user_id |-> user_id, message |-> message,
   notification_type |-> notification_type, status |-> "unread",
   created_at |-> datetime_now, updated_at |-> datetime_now]

\* Variant: the message is measured without strip()
NotificationValidate_no_strip(self) ==
  IF Len(self.message) = 0 \/ Len(self.message) < 3
  THEN [ok |-> FALSE, error |-> <<"Message must be at least 3 characters">>]
  ELSE IF ~(self.user_id \in Int) \/ self.user_id <= 0
  THEN [ok |-> FALSE, error |-> <<"Invalid user_id">>]
  ELSE IF self.notification_type \notin NotificationTypes
  THEN [ok |-> FALSE, error |-> <<"Invalid notification type">>]
  ELSE [ok |-> TRUE, error |-> NoneVal]

NotificationValidate(self) ==
  IF Len(self.message) = 0 \/ Len(strip(self.message)) < 3
  THEN [ok |-> FALSE, error |-> <<"Message must be at least 3 characters">>]
  ELSE IF ~(self.user_id \in Int) \/ self.user_id <= 0
  THEN [ok |-> FALSE, error |-> <<"Invalid user_id">>]
  ELSE IF self.notification_type \notin NotificationTypes
  THEN [ok |-> FALSE, error |-> <<"Invalid notification type">>]
  ELSE [ok |-> TRUE, error |-> NoneVal]

NotificationStatuses == {"unread", "read", "archived"}

Notification_mark_as_read_toggles(self, t) ==
  [self EXCEPT !.status = IF self.status = "read" THEN "unread" ELSE "read",
               !.updated_at = t]

Notification_mark_as_read_when_not_read(self, t) ==
  IF self.status = "read" THEN self
  ELSE [self EXCEPT !.status = "read", !.updated_at = t]

\* Notification.mark_as_read(); t is its reading of the clock
Notification_mark_as_read(self, t) ==
  [self EXCEPT !.status = "read", !.updated_at = t]

\* Notification.archive()
Notification_archive(self, t) ==
  [self EXCEPT !.status = "archived", !.updated_at = t]

\* ------------------------------------------------------------------------
\* BaseRepository (app/common/base.py)
\* ------------------------------------------------------------------------

VARIABLES
  kind,      \* the repository class that was constructed
  items,     \* self._items, entries [k, v] in insertion order
  next_id,   \* self._next_id
  last,      \* the last call: its operation, result and exception
  issued,    \* the ids returned by get_next_id, in call order
  created    \* the ids of the entities returned by create, in call order

vars == <<kind, items, next_id, issued, created, now, obj, last>>

Kinds == {"Task", "Project", "Category", "Tag", "Notification", "Alert"}

\* The keys of a dict
DictKeys(d) == {d[i].k : i \in 1..Len(d)}

\* d[k] = v: an existing key keeps its position, a new key goes last
DictSet(d, k, v) ==
  IF k \in DictKeys(d)
  THEN [i \in 1..Len(d) |-> IF d[i].k = k THEN [k |-> k, v |-> v] ELSE d[i]]
  ELSE Append(d, [k |-> k, v |-> v])

\* del d[k]
DictDel(d, k) == SelectSeq(d, LAMBDA e : e.k # k)

\* self : the repository object, [items, next_id]
Self == [items |-> items, next_id |-> next_id]

get(self, item_id) ==
  IF item_id \in DictKeys(self.items)
  THEN LET i == CHOOSE i \in 1..Len(self.items) : self.items[i].k = item_id
       IN  self.items[i].v
  ELSE NoneVal

\* `not item`: None is falsy, an entity object is truthy
Falsy(item) == item = NoneVal

\* Variant: the caller's label is not passed on to NotFoundError
get_or_raise_default_label(self, item_id, resource_type) ==
  LET item == get(self, item_id)
  IN  IF Falsy(item)
      THEN [ret |-> NoneVal,
            error |-> NotFoundError(<<resource_type, " not found">>, "Resource")]
      ELSE [ret |-> item, error |-> NoError]

get_or_raise(self, item_id, resource_type) ==
  LET item == get(self, item_id)
  IN  IF Falsy(item)
      THEN [ret |-> NoneVal,
            error |-> NotFoundError(<<resource_type, " not found">>, resource_type)]
      ELSE [ret |-> item, error |-> NoError]

get_all(self) == [i \in 1..Len(self.items) |-> self.items[i].v]

\* Variant: update assigns without the membership test
update_upsert(self, item_id, item) ==
  [items |-> DictSet(self.items, item_id, item), next_id |-> self.next_id,
   ret |-> item_id \in DictKeys(self.items)]

\* Variant: update removes the entry and inserts it again
update_reinsert(self, item_id, item) ==
  IF item_id \in DictKeys(self.items)
  THEN [items |-> Append(DictDel(self.items, item_id),
                         [k |-> item_id, v |-> item]),
        next_id |-> self.next_id, ret |-> TRUE]
  ELSE [items |-> self.items, next_id |-> self.next_id, ret |-> FALSE]

update(self, item_id, item) ==
  IF item_id \in DictKeys(self.items)
  THEN [items |-> DictSet(self.items, item_id, item), next_id |-> self.next_id,
        ret |-> TRUE]
  ELSE [items |-> self.items, next_id |-> self.next_id, ret |-> FALSE]

\* Variant: delete hands the freed id back to the counter
delete_reuse(self, item_id) ==
  IF item_id \in DictKeys(self.items)
  THEN [items |-> DictDel(self.items, item_id), next_id |-> item_id,
        ret |-> TRUE]
  ELSE [items |-> self.items, next_id |-> self.next_id, ret |-> FALSE]

\* Variant: delete drops every entry
delete_clear(self, item_id) ==
  IF item_id \in DictKeys(self.items)
  THEN [items |-> << >>, next_id |-> self.next_id, ret |-> TRUE]
  ELSE [items |-> self.items, next_id |-> self.next_id, ret |-> FALSE]

delete(self, item_id) ==
  IF item_id \in DictKeys(self.items)
  THEN [items |-> DictDel(self.items, item_id), next_id |-> self.next_id,
        ret |-> TRUE]
  ELSE [items |-> self.items, next_id |-> self.next_id, ret |-> FALSE]

count(self) == Len(self.items)

exists(self, item_id) == item_id \in DictKeys(self.items)

\* Variant: the counter is not advanced
get_next_id_no_increment(self) == [ret |-> self.next_id, next_id |-> self.next_id]

get_next_id(self) == [ret |-> self.next_id, next_id |-> self.next_id + 1]

\* ------------------------------------------------------------------------
\* Domain repositories' create()
\* ------------------------------------------------------------------------

\* The outcome of a create call: the repository afterwards, the returned
\* entity, the exception raised and the id taken from get_next_id.
Raise(self, alloc, error) ==
  [items |-> self.items, next_id |-> alloc.next_id, ret |-> NoneVal,
   error |-> error, id |-> alloc.ret]

Store(self, alloc, key, entity) ==
  [items |-> DictSet(self.items, key, entity), next_id |-> alloc.next_id,
   ret |-> entity, error |-> NoError, id |-> alloc.ret]

\* task_service.py stores under task.task_id, an attribute Task does not
\* have: the assignment raises AttributeError after validation has passed.
TaskRepository_create(self, title, description) ==
  LET alloc == get_next_id(self)
      task  == Task(alloc.ret, title, description)
      v     == TaskValidate(task)
  IN  IF ~v.ok
      THEN Raise(self, alloc, ValidationError(v.error))
      ELSE Raise(self, alloc,
                 BuiltinError("AttributeError",
                              <<"'Task' object has no attribute 'task_id'">>))

ProjectRepository_create_under_next_id(self, name, description, owner_id) ==
  LET alloc   == get_next_id(self)
      project == Project(alloc.ret, name, description, owner_id)
      v       == ProjectValidate(project)
  IN  IF ~v.ok
      THEN Raise(self, alloc, ValidationError(v.error))
      ELSE Store(self, alloc, alloc.next_id, project)

ProjectRepository_create(self, name, description, owner_id) ==
  LET alloc   == get_next_id(self)
      project == Project(alloc.ret, name, description, owner_id)
      v       == ProjectValidate(project)
  IN  IF ~v.ok
      THEN Raise(self, alloc, ValidationError(v.error))
      ELSE Store(self, alloc, project.id, project)

CategoryRepository_create_scan_first(self, name, color) ==
  LET alloc    == get_next_id(self)
      category == Category(alloc.ret, name, color)
      v        == CategoryValidate(category)
  IN  IF \E i \in 1..Len(self.items) :
           lower(self.items[i].v.name) = lower(name)
      THEN Raise(self, alloc,
                 ValidationError(<<"Category '", name, "' already exists">>))
      ELSE IF ~v.ok
      THEN Raise(self, alloc, ValidationError(v.error))
      ELSE Store(self, alloc, category.id, category)

CategoryRepository_create(self, name, color) ==
  LET alloc    == get_next_id(self)
      category == Category(alloc.ret, name, color)
      v        == CategoryValidate(category)
  IN  IF ~v.ok
      THEN Raise(self, alloc, ValidationError(v.error))
      ELSE IF \E i \in 1..Len(self.items) :
                lower(self.items[i].v.name) = lower(name)
      THEN Raise(self, alloc,
                 ValidationError(<<"Category '", name, "' already exists">>))
      ELSE Store(self, alloc, category.id, category)

\* Variant: the id is taken from get_next_id only once the tag is accepted
TagRepository_create_allocates_late(self, name) ==
  LET alloc == get_next_id(self)
      none  == [ret |-> self.next_id, next_id |-> self.next_id]
      tag   == Tag(alloc.ret, name)
      v     == TagValidate(tag)
  IN  IF ~v.ok
      THEN Raise(self, none, ValidationError(v.error))
      ELSE IF \E i \in 1..Len(self.items) :
                lower(self.items[i].v.name) = lower(name)
      THEN Raise(self, none,
                 ValidationError(<<"Tag '", name, "' already exists">>))
      ELSE Store(self, alloc, tag.id, tag)

\* Variant: the duplicate scan compares the names as written
TagRepository_create_case_sensitive(self, name) ==
  LET alloc == get_next_id(self)
      tag   == Tag(alloc.ret, name)
      v     == TagValidate(tag)
  IN  IF ~v.ok
      THEN Raise(self, alloc, ValidationError(v.error))
      ELSE IF \E i \in 1..Len(self.items) : self.items[i].v.name = name
      THEN Raise(self, alloc,
                 ValidationError(<<"Tag '", name, "' already exists">>))
      ELSE Store(self, alloc, tag.id, tag)

TagRepository_create(self, name) ==
  LET alloc == get_next_id(self)
      tag   == Tag(alloc.ret, name)
      v     == TagValidate(tag)
  IN  IF ~v.ok
      THEN Raise(self, alloc, ValidationError(v.error))
      ELSE IF \E i \in 1..Len(self.items) :
                lower(self.items[i].v.name) = lower(name)
      THEN Raise(self, alloc,
                 ValidationError(<<"Tag '", name, "' already exists">>))
      ELSE Store(self, alloc, tag.id, tag)

\* Variant: the notification is stored before it is validated
NotificationRepository_create_store_first(self, user_id, message, notification_type) ==
  LET alloc        == get_next_id(self)
      notification == Notification(alloc.ret, user_id, message, notification_type)
      v            == NotificationValidate(notification)
      stored       == Store(self, alloc, notification.id, notification)
  IN  IF ~v.ok
      THEN [stored EXCEPT !.ret = NoneVal, !.error = ValidationError(v.error)]
      ELSE stored

NotificationRepository_create(self, user_id, message, notification_type) ==
  LET alloc        == get_next_id(self)
      notification == Notification(alloc.ret, user_id, message, notification_type)
      v            == NotificationValidate(notification)
  IN  IF ~v.ok
      THEN Raise(self, alloc, ValidationError(v.error))
      ELSE Store(self, alloc, notification.id, notification)

\* alert_service.py: create takes a notification the caller constructed,
\* calls neither get_next_id nor validate(), and assigns into self._storage,
\* an attribute no repository has: reading it raises AttributeError
AlertRepository_create(self, notification) ==
  [items |-> self.items, next_id |-> self.next_id, ret |-> NoneVal,
   error |-> BuiltinError("AttributeError",
               <<"'AlertRepository' object has no attribute '_storage'">>)]

\* ------------------------------------------------------------------------
\* Domain repositories' queries and updates of stored entities
\* ------------------------------------------------------------------------

\* One step of sorted(..., key=usage_count, reverse=True): tag goes behind
\* the tags whose usage_count is at least its own, so equal keys keep the
\* order in which they came
InsertByUsage(sorted, tag) ==
  LET n == Cardinality({i \in 1..Len(sorted) :
                          sorted[i].usage_count >= tag.usage_count})
  IN  SubSeq(sorted, 1, n) \o <<tag>> \o SubSeq(sorted, n + 1, Len(sorted))

RECURSIVE SortedByUsage(_)
SortedByUsage(tags) ==
  IF tags = << >> THEN << >>
  ELSE InsertByUsage(SortedByUsage(SubSeq(tags, 1, Len(tags) - 1)),
                     tags[Len(tags)])

\* list[:limit]; a negative limit counts from the end
Slice(list, limit) ==
  IF limit >= 0
  THEN SubSeq(list, 1, IF limit < Len(list) THEN limit ELSE Len(list))
  ELSE SubSeq(list, 1, IF Len(list) + limit > 0 THEN Len(list) + limit ELSE 0)

TagRepository_get_popular_tags_slice_first(self, limit) ==
  SortedByUsage(Slice(get_all(self), limit))

TagRepository_get_popular_tags(self, limit) ==
  Slice(SortedByUsage(get_all(self)), limit)

NotificationRepository_find_unread_any_user(self, user_id) ==
  SelectSeq(get_all(self), LAMBDA n : n.status = "unread")

NotificationRepository_find_unread(self, user_id) ==
  SelectSeq(get_all(self),
            LAMBDA n : n.user_id = user_id /\ n.status = "unread")

NotificationRepository_get_unread_count(self, user_id) ==
  Len(NotificationRepository_find_unread(self, user_id))

\* NotificationRepository.mark_as_read(notification_id): the stored object
\* itself is marked, so the repository holds the marked notification
NotificationRepository_mark_as_read(self, notification_id, t) ==
  LET notification == get(self, notification_id)
  IN  IF Falsy(notification)
      THEN [items |-> self.items, ret |-> NoneVal,
            error |-> NotFoundError(<<"Notification ", notification_id,
                                      " not found">>, "Notification")]
      ELSE [items |-> DictSet(self.items, notification_id,
                              Notification_mark_as_read(notification, t)),
            ret |-> Notification_mark_as_read(notification, t),
            error |-> NoError]

NotificationRepository_archive_marks_read(self, notification_id, t) ==
  NotificationRepository_mark_as_read(self, notification_id, t)

\* NotificationRepository.archive(notification_id)
NotificationRepository_archive(self, notification_id, t) ==
  LET notification == get(self, notification_id)
  IN  IF Falsy(notification)
      THEN [items |-> self.items, ret |-> NoneVal,
            error |-> NotFoundError(<<"Notification ", notification_id,
                                      " not found">>, "Notification")]
      ELSE [items |-> DictSet(self.items, notification_id,
                              Notification_archive(notification, t)),
            ret |-> Notification_archive(notification, t),
            error |-> NoError]

\* ------------------------------------------------------------------------
\* Inputs
\* ------------------------------------------------------------------------

\* Ids a caller passes to get_or_raise / update / delete
ItemIds == 1..(MaxId + 1)

TaskTitles == {<< >>, <<" ">>, <<"a">>, Rep("a", 255), Rep("a", 256)}

TaskDescriptions == {<< >>, Rep("d", 2001)}

ProjectNames == {<< >>, <<"a">>, <<"A">>, Rep("a", 101)}

ProjectDescriptions == {<< >>, Rep("d", 1001)}

OwnerIds == {0, 1}

CategoryNames == {<< >>, <<"a">>, <<"A">>, <<"b">>, Rep("a", 51)}

Colors ==
  {<<"#", "0", "0", "0", "0", "0", "0">>,
   <<"#", "F", "f", "0", "0", "1", "g">>,
   <<"r", "e", "d">>}

TagNames ==
  {<< >>, <<" ">>, <<"a">>, <<"A">>, <<"b">>, <<"a", "-">>, Rep("a", 31)}

UserIds == {0, 1, 2}

Messages ==
  {<< >>, <<"A", "B">>, <<"a", "b", "1">>, <<" ", "a", "b", " ">>}

\* "bogus" stands for a value that is not a NotificationType member
TypeArgs == {"task_assigned", "bogus"}

\* Labels a caller passes to get_or_raise
Labels == {"Item", "Tag"}

\* Entities a caller has at hand to pass to update(): objects of each entity
\* class, valid or not, whose id need not be the key they are stored under.
\* The notifications a caller hands to AlertRepository.create
AlertNotifications ==
  {Notification(i, 1, m, "task_assigned") :
     i \in {1, 2}, m \in {<<"a", "b", "1">>, <<"A", "B">>}}

UpdateItems ==
  [Task |-> {Task(1, <<"a">>, << >>), Task(1, << >>, << >>)},
   Project |-> {Project(1, <<"A">>, << >>, 1), Project(1, << >>, << >>, 1)},
   Category |-> {Category(1, <<"B">>, <<"#", "0", "0", "0", "0", "0", "0">>),
                 Category(1, << >>, <<"#", "0", "0", "0", "0", "0", "0">>)},
   Tag |-> {Tag(1, <<"B">>), Tag(1, <<"a", "-">>)},
   Notification |-> {Notification(1, 1, <<"a", "b", "1">>, "task_assigned"),
                     Notification(1, 1, <<"A", "B">>, "task_assigned")},
   Alert |-> {Notification(1, 1, <<"a", "b", "1">>, "task_assigned"),
              Notification(1, 1, <<"A", "B">>, "task_assigned")}]

\* ------------------------------------------------------------------------
\* State machine: one repository object and its caller
\* ------------------------------------------------------------------------

\* What the caller observes of a call: the value returned, the exception raised
Call(op, ret, error) == [op |-> op, ret |-> ret, error |-> error]

Raised(call) == call.error.type # "none"

Init ==
  /\ kind \in Kinds
  /\ items = << >>
  /\ next_id = 1
  /\ last = Call("init", NoneVal, NoError)
  /\ issued = << >>
  /\ created = << >>
  /\ now = 0
  /\ obj = NoneVal

\* The effect of a create call with outcome r
Created(r) ==
  /\ items' = r.items
  /\ next_id' = r.next_id
  /\ last' = Call("create", r.ret, r.error)
  /\ issued' = Append(issued, r.id)
  /\ created' = IF r.error.type = "none" THEN Append(created, r.ret.id) ELSE created
  /\ UNCHANGED <<kind, now, obj>>

TaskCreate(title, description) ==
  /\ kind = "Task"
  /\ next_id <= MaxId
  /\ Created(TaskRepository_create(Self, title, description))

ProjectCreate(name, description, owner_id) ==
  /\ kind = "Project"
  /\ next_id <= MaxId
  /\ Created(ProjectRepository_create(Self, name, description, owner_id))

CategoryCreate(name, color) ==
  /\ kind = "Category"
  /\ next_id <= MaxId
  /\ Created(CategoryRepository_create(Self, name, color))

TagCreate(name) ==
  /\ kind = "Tag"
  /\ next_id <= MaxId
  /\ Created(TagRepository_create(Self, name))

NotificationCreate(user_id, message, notification_type) ==
  /\ kind = "Notification"
  /\ next_id <= MaxId
  /\ Created(NotificationRepository_create(Self, user_id, message,
                                           notification_type))

AlertCreate(notification) ==
  /\ kind = "Alert"
  /\ LET r == AlertRepository_create(Self, notification)
     IN  /\ items' = r.items
         /\ next_id' = r.next_id
         /\ last' = Call("create", r.ret, r.error)
  /\ UNCHANGED <<kind, issued, created, now, obj>>

GetOrRaise(item_id, resource_type) ==
  /\ LET r == get_or_raise(Self, item_id, resource_type)
     IN  last' = Call("get_or_raise", r.ret, r.error)
  /\ UNCHANGED <<kind, items, next_id, issued, created, now, obj>>

Update(item_id, item) ==
  /\ item \in UpdateItems[kind]
  /\ LET r == update(Self, item_id, item)
     IN  /\ items' = r.items
         /\ next_id' = r.next_id
         /\ last' = Call("update", r.ret, NoError)
  /\ UNCHANGED <<kind, issued, created, now, obj>>

Delete(item_id) ==
  /\ LET r == delete(Self, item_id)
     IN  /\ items' = r.items
         /\ next_id' = r.next_id
         /\ last' = Call("delete", r.ret, NoError)
  /\ UNCHANGED <<kind, issued, created, now, obj>>

GetNextId ==
  /\ next_id <= MaxId
  /\ LET r == get_next_id(Self)
     IN  /\ next_id' = r.next_id
         /\ last' = Call("get_next_id", r.ret, NoError)
         /\ issued' = Append(issued, r.ret)
  /\ UNCHANGED <<kind, items, created, now, obj>>

Next ==
  \/ \E t \in TaskTitles, d \in TaskDescriptions : TaskCreate(t, d)
  \/ \E n \in ProjectNames, d \in ProjectDescriptions, o \in OwnerIds :
       ProjectCreate(n, d, o)
  \/ \E n \in CategoryNames, c \in Colors : CategoryCreate(n, c)
  \/ \E n \in TagNames : TagCreate(n)
  \/ \E u \in UserIds, m \in Messages, t \in TypeArgs : NotificationCreate(u, m, t)
  \/ \E n \in AlertNotifications : AlertCreate(n)
  \/ \E i \in ItemIds, l \in Labels : GetOrRaise(i, l)
  \/ \E i \in ItemIds, k \in Kinds : \E e \in UpdateItems[k] : Update(i, e)
  \/ \E i \in ItemIds : Delete(i)
  \/ GetNextId

Spec == Init /\ [][Next]_vars

\* ------------------------------------------------------------------------
\* Entities held outside a repository: the caller constructs one object and
\* calls its methods while the clock runs
\* ------------------------------------------------------------------------

EntityKinds == {"Task", "Project", "Notification"}

DueDates == {NoTime} \cup {At(t) : t \in 0..MaxTime}

MemberIds == {0, 1, 2}

EmptyRepository == [items |-> << >>, next_id |-> 1]

\* The objects a caller constructs: a task of any status and due date, a
\* project from its constructor or from ProjectRepository.create, a
\* notification of any status
Objects ==
  [Task |->
     {[Task(1, <<"a">>, << >>) EXCEPT !.status = s, !.due_date = d] :
        s \in TaskStatuses, d \in DueDates},
   Project |->
     {Project(1, <<"a">>, << >>, o) : o \in MemberIds}
       \cup {ProjectRepository_create(EmptyRepository, <<"a">>, << >>, o).ret :
               o \in MemberIds},
   Notification |->
     {[Notification(1, 1, <<"a", "b", "1">>, "task_assigned")
         EXCEPT !.status = s] : s \in NotificationStatuses}]

InitEntity ==
  /\ kind \in EntityKinds
  /\ items = << >>
  /\ next_id = 1
  /\ last = Call("init", NoneVal, NoError)
  /\ issued = << >>
  /\ created = << >>
  /\ now = 0
  /\ obj \in Objects[kind]

\* A call reads the clock, which has run on since the last call, or not
TaskMarkAsDone ==
  /\ kind = "Task"
  /\ \E t1 \in now..MaxTime : \E t2 \in t1..MaxTime :
       /\ obj' = Task_mark_as_done(obj, t1, t2)
       /\ now' = t2
  /\ last' = Call("mark_as_done", NoneVal, NoError)
  /\ UNCHANGED <<kind, items, next_id, issued, created>>

TaskMarkAsInProgress ==
  /\ kind = "Task"
  /\ \E t \in now..MaxTime :
       /\ obj' = Task_mark_as_in_progress(obj, t)
       /\ now' = t
  /\ last' = Call("mark_as_in_progress", NoneVal, NoError)
  /\ UNCHANGED <<kind, items, next_id, issued, created>>

TaskIsOverdue ==
  /\ kind = "Task"
  /\ \E t \in now..MaxTime :
       /\ last' = Call("is_overdue", Task_is_overdue(obj, t), NoError)
       /\ now' = t
  /\ UNCHANGED <<kind, items, next_id, issued, created, obj>>

TaskTags == {"x", "y"}

TaskAddTag(tag) ==
  /\ kind = "Task"
  /\ \E t \in now..MaxTime :
       /\ obj' = Task_add_tag(obj, tag, t)
       /\ now' = t
  /\ last' = Call("add_tag", NoneVal, NoError)
  /\ UNCHANGED <<kind, items, next_id, issued, created>>

ProjectAddMember(user_id) ==
  /\ kind = "Project"
  /\ \E t \in now..MaxTime :
       LET r == Project_add_member(obj, user_id, t)
       IN  /\ obj' = r.self
           /\ last' = Call("add_member", r.ret, NoError)
           /\ now' = t
  /\ UNCHANGED <<kind, items, next_id, issued, created>>

ProjectRemoveMember(user_id) ==
  /\ kind = "Project"
  /\ \E t \in now..MaxTime :
       LET r == Project_remove_member(obj, user_id, t)
       IN  /\ obj' = r.self
           /\ last' = Call("remove_member", r.ret, NoError)
           /\ now' = t
  /\ UNCHANGED <<kind, items, next_id, issued, created>>

NotificationMarkAsRead ==
  /\ kind = "Notification"
  /\ \E t \in now..MaxTime :
       /\ obj' = Notification_mark_as_read(obj, t)
       /\ now' = t
  /\ last' = Call("mark_as_read", NoneVal, NoError)
  /\ UNCHANGED <<kind, items, next_id, issued, created>>

NotificationArchive ==
  /\ kind = "Notification"
  /\ \E t \in now..MaxTime :
       /\ obj' = Notification_archive(obj, t)
       /\ now' = t
  /\ last' = Call("archive", NoneVal, NoError)
  /\ UNCHANGED <<kind, items, next_id, issued, created>>

NextEntity ==
  \/ TaskMarkAsDone
  \/ TaskMarkAsInProgress
  \/ TaskIsOverdue
  \/ \E g \in TaskTags : TaskAddTag(g)
  \/ \E u \in MemberIds : ProjectAddMember(u)
  \/ \E u \in MemberIds : ProjectRemoveMember(u)
  \/ NotificationMarkAsRead
  \/ NotificationArchive

SpecEntity == InitEntity /\ [][NextEntity]_vars

\* ------------------------------------------------------------------------
\* Construction: what BaseModel.__init__ makes of the arguments a model's
\* constructor hands it. The arguments are Python values of any type, so
\* they carry their type: None, an int, a datetime
\* ------------------------------------------------------------------------

PyInt(n) == [int |-> n]

PyDatetime(t) == [datetime |-> t]

\* bool(v): None and the int 0 are falsy, a datetime is truthy
Truthy(v) == v # NoneVal /\ v # PyInt(0)

\* BaseModel.__init__(model_id, created_at)
BaseModel(model_id, created_at) ==
  [id |-> model_id,
   created_at |-> IF Truthy(created_at) THEN created_at
                  ELSE PyDatetime(datetime_now),
   updated_at |-> PyDatetime(datetime_now)]

\* The entity as its constructor leaves it when called with created_at:
\* id and created_at are what super().__init__ assigned
WithBase(entity, base) ==
  [entity EXCEPT !.id = base.id, !.created_at = base.created_at]

\* SubTask.__init__ calls super().__init__(created_at, subtask_id): the
\* arguments are in the wrong order
SubTask(subtask_id, title, parent_task, created_at) ==
  LET base == BaseModel(created_at, PyInt(subtask_id))
  IN  [id |-> base.id, created_at |-> base.created_at,
       updated_at |-> datetime_now, title |-> title,
       parent_task |-> parent_task, status |-> "todo", priority |-> "medium"]

ModelKinds == {"Task", "Project", "Category", "Tag", "Notification", "SubTask"}

ModelIds == {1, 2}

\* created_at as the caller supplies it: not at all, or a datetime
CreatedAts == {NoneVal} \cup {PyDatetime(t) : t \in 0..MaxTime}

\* The entity of kind k constructed with identifier n and created_at c
Constructed(k, n, c) ==
  CASE k = "Task" ->
         WithBase(Task(n, <<"a">>, << >>), BaseModel(PyInt(n), c))
    [] k = "Project" ->
         WithBase(Project(n, <<"a">>, << >>, 1), BaseModel(PyInt(n), c))
    [] k = "Category" ->
         WithBase(Category(n, <<"a">>, <<"#", "0", "0", "0", "0", "0", "0">>),
                  BaseModel(PyInt(n), c))
    [] k = "Tag" ->
         WithBase(Tag(n, <<"a">>), BaseModel(PyInt(n), c))
    [] k = "Notification" ->
         WithBase(Notification(n, 1, <<"a", "b", "1">>, "task_assigned"),
                  BaseModel(PyInt(n), c))
    [] k = "SubTask" -> SubTask(n, <<"a">>, 1, c)

\* The caller constructs one entity at some time; last holds the arguments
InitConstruct ==
  /\ kind \in ModelKinds
  /\ items = << >>
  /\ next_id = 1
  /\ issued = << >>
  /\ created = << >>
  /\ now \in 0..MaxTime
  /\ \E n \in ModelIds, c \in CreatedAts :
       /\ obj = Constructed(kind, n, c)
       /\ last = Call("init", [model_id |-> n, created_at |-> c], NoError)

TagObjectIncrementUsage ==
  /\ kind = "Tag"
  /\ obj.usage_count < MaxUsage
  /\ \E t \in now..MaxTime :
       /\ obj' = Tag_increment_usage(obj, t)
       /\ now' = t
  /\ last' = Call("increment_usage", NoneVal, NoError)
  /\ UNCHANGED <<kind, items, next_id, issued, created>>

TagObjectDecrementUsage ==
  /\ kind = "Tag"
  /\ \E t \in now..MaxTime :
       /\ obj' = Tag_decrement_usage(obj, t)
       /\ now' = t
  /\ last' = Call("decrement_usage", NoneVal, NoError)
  /\ UNCHANGED <<kind, items, next_id, issued, created>>

NextConstruct ==
  \/ NextEntity
  \/ TagObjectIncrementUsage
  \/ TagObjectDecrementUsage

SpecConstruct == InitConstruct /\ [][NextConstruct]_vars

\* ------------------------------------------------------------------------
\* A repository whose stored entities are used: tags are counted and
\* ranked, notifications are read and archived, while the clock runs
\* ------------------------------------------------------------------------

\* Ids are issued to stored entities in use while _next_id <= MaxStored
MaxStored == 2

StoredKinds == {"Tag", "Notification"}

StoredTagNames == {<<"a">>, <<"b">>, <<"c">>, <<"a", "-">>}

Limits == (0 - 1)..(MaxStored + 1)

StoredUserIds == {1, 2}

StoredIds == 1..(MaxStored + 1)

StoredMessages == {<<"a", "b", "1">>, <<"A", "B">>}

InitStored ==
  /\ kind \in StoredKinds
  /\ items = << >>
  /\ next_id = 1
  /\ last = Call("init", NoneVal, NoError)
  /\ issued = << >>
  /\ created = << >>
  /\ now = 0
  /\ obj = NoneVal

\* The clock runs on between calls
Tick ==
  /\ now < MaxTime
  /\ now' = now + 1
  /\ UNCHANGED <<kind, items, next_id, last, issued, created, obj>>

\* tag.increment_usage() on the stored tag item_id
TagIncrementUsage(item_id) ==
  /\ kind = "Tag"
  /\ item_id \in DictKeys(items)
  /\ get(Self, item_id).usage_count < MaxUsage
  /\ items' = DictSet(items, item_id, Tag_increment_usage(get(Self, item_id), now))
  /\ last' = Call("increment_usage", NoneVal, NoError)
  /\ UNCHANGED <<kind, next_id, issued, created, now, obj>>

TagDecrementUsage(item_id) ==
  /\ kind = "Tag"
  /\ item_id \in DictKeys(items)
  /\ items' = DictSet(items, item_id, Tag_decrement_usage(get(Self, item_id), now))
  /\ last' = Call("decrement_usage", NoneVal, NoError)
  /\ UNCHANGED <<kind, next_id, issued, created, now, obj>>

GetPopularTags(limit) ==
  /\ kind = "Tag"
  /\ last' = Call("get_popular_tags", TagRepository_get_popular_tags(Self, limit),
                  NoError)
  /\ UNCHANGED <<kind, items, next_id, issued, created, now, obj>>

MarkAsRead(notification_id) ==
  /\ kind = "Notification"
  /\ LET r == NotificationRepository_mark_as_read(Self, notification_id, now)
     IN  /\ items' = r.items
         /\ last' = Call("mark_as_read", r.ret, r.error)
  /\ UNCHANGED <<kind, next_id, issued, created, now, obj>>

Archive(notification_id) ==
  /\ kind = "Notification"
  /\ LET r == NotificationRepository_archive(Self, notification_id, now)
     IN  /\ items' = r.items
         /\ last' = Call("archive", r.ret, r.error)
  /\ UNCHANGED <<kind, next_id, issued, created, now, obj>>

FindUnread(user_id) ==
  /\ kind = "Notification"
  /\ last' = Call("find_unread", NotificationRepository_find_unread(Self, user_id),
                  NoError)
  /\ UNCHANGED <<kind, items, next_id, issued, created, now, obj>>

GetUnreadCount(user_id) ==
  /\ kind = "Notification"
  /\ last' = Call("get_unread_count",
                  NotificationRepository_get_unread_count(Self, user_id), NoError)
  /\ UNCHANGED <<kind, items, next_id, issued, created, now, obj>>

NextStored ==
  \/ Tick
  \/ \E n \in StoredTagNames : next_id <= MaxStored /\ TagCreate(n)
  \/ \E i \in StoredIds : TagIncrementUsage(i)
  \/ \E i \in StoredIds : TagDecrementUsage(i)
  \/ \E l \in Limits : GetPopularTags(l)
  \/ \E u \in StoredUserIds, m \in StoredMessages :
       next_id <= MaxStored /\ NotificationCreate(u, m, "task_assigned")
  \/ \E i \in StoredIds : MarkAsRead(i)
  \/ \E i \in StoredIds : Archive(i)
  \/ \E u \in StoredUserIds : FindUnread(u)
  \/ \E u \in StoredUserIds : GetUnreadCount(u)

SpecStored == InitStored /\ [][NextStored]_vars

\* ------------------------------------------------------------------------
\* Properties
\* ------------------------------------------------------------------------

\* The repository after a step
SelfNext == [items |-> items', next_id |-> next_id']

\* The lowest id a create returned is no longer stored
LowestDeleted == Len(created) >= 1 /\ created[1] \notin DictKeys(items)

\* C1: the ids of the entities returned by successful create calls are
\* strictly increasing in call order, so none is returned twice, also after
\* the entity holding the lowest id has been deleted.
C1_CreatedIdsIncrease ==
  \A i, j \in 1..Len(created) : i < j => created[i] < created[j]

\* A create succeeded after the entity with the lowest id was deleted
C1_Witness ==
  /\ last.op = "create"
  /\ ~Raised(last)
  /\ Len(created) >= 3
  /\ LowestDeleted

\* C2: next_id is strictly greater than every id get_next_id ever returned
\* (ids of deleted entities and of failed creates included), and next_id
\* never decreases.
C2_NextIdAboveIssued ==
  /\ [](\A i \in 1..Len(issued) : issued[i] < next_id)
  /\ [][next_id' >= next_id]_vars

\* An id was consumed by a failed create after an entity was deleted
C2_Witness ==
  /\ last.op = "create"
  /\ Raised(last)
  /\ LowestDeleted
  /\ Len(issued) > Len(created)

\* A title TaskRepository.create must accept: non-blank, at most 255 characters
ValidTitle(title) == Len(strip(title)) > 0 /\ Len(title) <= 255

\* A create with a valid title returns the task and stores it
TaskCreateStores ==
  \A t \in TaskTitles :
    (last'.op = "create" /\ TaskCreate(t, << >>) /\ ValidTitle(t)) =>
      /\ ~Raised(last')
      /\ get(SelfNext, last'.ret.id) = last'.ret
      /\ count(SelfNext) = count(Self) + 1

\* C3: for every valid title TaskRepository.create returns the new task and
\* stores it under its id: get(task.id) returns it and count() is one more.
C3_TaskCreateStores == [][TaskCreateStores]_vars

\* create was refused with the validation failure `reason`, storing nothing
Rejected(reason) ==
  /\ last'.error.type = "ValidationError"
  /\ last'.error.error_code = "VALIDATION_ERROR"
  /\ last'.error.message = reason
  /\ get_all(SelfNext) = get_all(Self)
  /\ count(SelfNext) = count(Self)

\* validate() returned v: when it failed, create was refused with its reason
RejectedIfInvalid(v) == ~v.ok => Rejected(v.error)

\* Every create refuses what validate() refuses
InvalidCreateRejected ==
  /\ \A t \in TaskTitles, d \in TaskDescriptions :
       (last'.op = "create" /\ TaskCreate(t, d)) =>
         RejectedIfInvalid(TaskValidate(Task(next_id, t, d)))
  /\ \A n \in ProjectNames, d \in ProjectDescriptions, o \in OwnerIds :
       (last'.op = "create" /\ ProjectCreate(n, d, o)) =>
         RejectedIfInvalid(ProjectValidate(Project(next_id, n, d, o)))
  /\ \A n \in CategoryNames, c \in Colors :
       (last'.op = "create" /\ CategoryCreate(n, c)) =>
         RejectedIfInvalid(CategoryValidate(Category(next_id, n, c)))
  /\ \A n \in TagNames :
       (last'.op = "create" /\ TagCreate(n)) =>
         RejectedIfInvalid(TagValidate(Tag(next_id, n)))
  /\ \A u \in UserIds, m \in Messages, t \in TypeArgs :
       (last'.op = "create" /\ NotificationCreate(u, m, t)) =>
         RejectedIfInvalid(NotificationValidate(Notification(next_id, u, m, t)))

\* C4: in each of the five repositories, when validate() of the constructed
\* entity returns (false, reason), create raises ValidationError
\* (VALIDATION_ERROR) with that reason as message and count() and get_all()
\* are as before the call.
C4_InvalidCreateRejected == [][InvalidCreateRejected]_vars

\* A non-empty notification repository refused a too short message
C4_Witness ==
  /\ kind = "Notification"
  /\ last.op = "create"
  /\ last.error.type = "ValidationError"
  /\ last.error.message = <<"Message must be at least 3 characters">>
  /\ Len(items) >= 1

\* Some stored entity has the given name, ignoring letter case
NameStored(name) ==
  \E i \in 1..Len(items) : lower(items[i].v.name) = lower(name)

\* The exception of the step is a conflict failure
ConflictRaised ==
  /\ last'.error.type = ConflictError(<< >>).type
  /\ last'.error.error_code = ConflictError(<< >>).error_code

\* A valid name that is already stored, ignoring case, is refused as a conflict
DuplicateIsConflict ==
  /\ \A n \in TagNames :
       (/\ last'.op = "create"
        /\ TagCreate(n)
        /\ TagValidate(Tag(next_id, n)).ok
        /\ NameStored(n)) => ConflictRaised
  /\ \A n \in CategoryNames, c \in Colors :
       (/\ last'.op = "create"
        /\ CategoryCreate(n, c)
        /\ CategoryValidate(Category(next_id, n, c)).ok
        /\ NameStored(n)) => ConflictRaised

\* C5: creating a Tag or a Category whose valid name equals, ignoring letter
\* case, the name of a stored entity fails with ConflictError (CONFLICT).
C5_DuplicateIsConflict == [][DuplicateIsConflict]_vars

\* validate() of a stored entity of the repository's class
Validate(e) ==
  CASE kind = "Task" -> TaskValidate(e)
    [] kind = "Project" -> ProjectValidate(e)
    [] kind = "Category" -> CategoryValidate(e)
    [] kind = "Tag" -> TagValidate(e)
    [] kind \in {"Notification", "Alert"} -> NotificationValidate(e)

\* No two stored names are equal ignoring letter case; every stored entity
\* passes validate()
UniqueValidNames ==
  kind \in {"Tag", "Category"} =>
    /\ \A i, j \in 1..Len(items) :
         i # j => lower(get_all(Self)[i].name) # lower(get_all(Self)[j].name)
    /\ \A i \in 1..Len(items) : Validate(get_all(Self)[i]).ok

\* A create refused because the name is taken leaves count() unchanged
DuplicateKeepsCount ==
  /\ \A n \in TagNames :
       (last'.op = "create" /\ TagCreate(n) /\ NameStored(n)) =>
         (Raised(last') /\ count(SelfNext) = count(Self))
  /\ \A n \in CategoryNames, c \in Colors :
       (last'.op = "create" /\ CategoryCreate(n, c) /\ NameStored(n)) =>
         (Raised(last') /\ count(SelfNext) = count(Self))

\* C6 as stated: in every state of a Tag or Category repository reachable
\* through create, update and delete, stored names are unique ignoring case
\* and every stored entity is valid; a rejected duplicate leaves count().
C6_UniqueValidWithUpdate ==
  /\ []UniqueValidNames
  /\ [][DuplicateKeepsCount]_vars

\* create and delete keep the names unique and valid
CreateDeleteKeepUniqueValid ==
  (last'.op \in {"create", "delete"} /\ UniqueValidNames) => UniqueValidNames'

\* C6 amended: a new Tag or Category repository has unique, valid names, and
\* no create or delete call ends that: if the names are unique ignoring case
\* and every entity is valid before the call, so they are after it (only
\* update can store a duplicate or invalid entity); a rejected duplicate
\* create leaves count() unchanged.
C6_UniqueValidNoUpdate ==
  /\ UniqueValidNames
  /\ [][CreateDeleteKeepUniqueValid]_vars
  /\ [][DuplicateKeepsCount]_vars

\* A tag repository holding two tags refused a third as a duplicate
C6_Witness ==
  /\ kind = "Tag"
  /\ UniqueValidNames
  /\ Len(items) >= 2
  /\ last.op = "create"
  /\ Raised(last)
  /\ Len(last.error.message) = 3

\* get_or_raise fails with NOT_FOUND and the caller's label on an id that is
\* not stored, and returns what get returns on a stored id
GetOrRaiseContract ==
  \A i \in ItemIds, l \in Labels :
    (last'.op = "get_or_raise" /\ GetOrRaise(i, l)) =>
      IF i \notin DictKeys(items)
      THEN /\ last'.error.type = "NotFoundError"
           /\ last'.error.error_code = "NOT_FOUND"
           /\ last'.error.details.resource_type = l
           /\ SelfNext = Self
      ELSE /\ ~Raised(last')
           /\ last'.ret = get(Self, i)
           /\ SelfNext = Self

\* C7: for every id that is not a key (never issued, or issued and deleted)
\* and every label L, get_or_raise(id, L) raises NotFoundError with
\* error_code NOT_FOUND and details.resource_type = L and leaves the
\* repository unchanged; for a stored id it returns the entity get(id) returns.
C7_GetOrRaise == [][GetOrRaiseContract]_vars

\* get_or_raise failed while an id that was issued has been deleted
C7_Witness ==
  /\ last.op = "get_or_raise"
  /\ last.error.type = "NotFoundError"
  /\ last.error.details.resource_type = "Tag"
  /\ LowestDeleted
  /\ Len(items) >= 1

\* delete removes exactly the entry of a stored id and nothing else
DeleteContract ==
  \A i \in ItemIds :
    (last'.op = "delete" /\ Delete(i)) =>
      /\ last'.ret = (i \in DictKeys(items))
      /\ IF i \in DictKeys(items)
         THEN /\ get(SelfNext, i) = NoneVal
              /\ DictKeys(items') = DictKeys(items) \ {i}
              /\ \A k \in DictKeys(items) \ {i} : get(SelfNext, k) = get(Self, k)
              /\ count(SelfNext) = count(Self) - 1
         ELSE /\ items' = items
              /\ count(SelfNext) = count(Self)
      /\ next_id' = next_id

UpdateContract ==
  \A i \in ItemIds, e \in UpdateItems[kind] :
    (last'.op = "update" /\ Update(i, e)) =>
      /\ last'.ret = (i \in DictKeys(items))
      /\ IF i \in DictKeys(items)
         THEN /\ get(SelfNext, i) = e
              /\ \A k \in DictKeys(items) \ {i} : get(SelfNext, k) = get(Self, k)
         ELSE items' = items
      /\ DictKeys(items') = DictKeys(items)
      /\ count(SelfNext) = count(Self)
      /\ next_id' = next_id

InsertionOrder == SelectSeq(created, LAMBDA k : k \in DictKeys(items))

\* C10: get_all() returns exactly the stored entities, one per stored key, in
\* the order in which create first inserted their keys.
C10_GetAllInsertionOrder ==
  /\ Len(get_all(Self)) = Cardinality(DictKeys(items))
  /\ Len(get_all(Self)) = Len(InsertionOrder)
  /\ \A i \in 1..Len(InsertionOrder) :
       get_all(Self)[i] = get(Self, InsertionOrder[i])

\* An update replaced the first of several entries after another was deleted
C10_Witness ==
  /\ last.op = "update"
  /\ last.ret = TRUE
  /\ Len(items) >= 2
  /\ Len(created) > Len(items)
  /\ ~Validate(items[1].v).ok

\* The create step did not end in a validation failure
PassedValidation == last'.error.type # "ValidationError"

\* validate() of the task that create(t, d) constructs passes exactly when
\* `expected`, and create raises ValidationError exactly when it fails
TaskTitleVerdict(t, d, expected) ==
  /\ TaskValidate(Task(next_id, t, d)).ok = expected
  /\ PassedValidation = expected

\* Titles judged by their length alone
TitleByLength ==
  \A t \in TaskTitles, d \in TaskDescriptions :
    (last'.op = "create" /\ TaskCreate(t, d) /\ Len(d) <= 2000) =>
      TaskTitleVerdict(t, d, Len(t) >= 1 /\ Len(t) <= 255)

\* C11 as stated: with a description of at most 2000 characters, a title of
\* 0 characters fails Task.validate(), every title of 1 to 255 characters
\* passes and every title of 256 or more characters fails.
C11_TitleByLength == [][TitleByLength]_vars

\* Titles judged by their length and by being blank
TitleByLengthNonBlank ==
  \A t \in TaskTitles, d \in TaskDescriptions :
    (last'.op = "create" /\ TaskCreate(t, d) /\ Len(d) <= 2000) =>
      TaskTitleVerdict(t, d, Len(strip(t)) >= 1 /\ Len(t) <= 255)

\* C11 amended: a title of 0 characters or of whitespace only fails, every
\* title of 1 to 255 characters with a non-whitespace character passes and
\* every title of 256 or more characters fails.
C11_TitleByLengthNonBlank == [][TitleByLengthNonBlank]_vars

\* A title of 256 characters was refused
C11_Witness ==
  /\ kind = "Task"
  /\ last.op = "create"
  /\ last.error.type = "ValidationError"
  /\ last.error.message = <<"Title cannot exceed 255 characters">>

\* validate() of the notification that create(u, m, t) constructs passes
\* exactly when `expected`; a failing message is refused and nothing stored
MessageVerdict(u, m, t, expected) ==
  /\ (u > 0 /\ t \in NotificationTypes) =>
       NotificationValidate(Notification(next_id, u, m, t)).ok = expected
  /\ ~expected =>
       /\ ~NotificationValidate(Notification(next_id, u, m, t)).ok
       /\ last'.error.type = "ValidationError"
       /\ items' = items

\* Messages judged by their length as written
MessageByLength ==
  \A u \in UserIds, m \in Messages, t \in TypeArgs :
    (last'.op = "create" /\ NotificationCreate(u, m, t)) =>
      MessageVerdict(u, m, t, Len(m) >= 3)

\* C12 as stated: Notification.validate() fails for every message shorter
\* than 3 characters and passes for every message of 3 or more characters
\* (user_id positive, type a NotificationType); create with a failing message
\* raises ValidationError and stores nothing.
C12_MessageByLength == [][MessageByLength]_vars

\* Messages judged by their length without surrounding whitespace
MessageByStrippedLength ==
  \A u \in UserIds, m \in Messages, t \in TypeArgs :
    (last'.op = "create" /\ NotificationCreate(u, m, t)) =>
      MessageVerdict(u, m, t, Len(strip(m)) >= 3)

\* C12 amended: validate() fails for every message that has fewer than 3
\* characters once leading and trailing whitespace is stripped, and passes
\* for every other message (user_id positive, type a NotificationType);
\* create with a failing message raises ValidationError and stores nothing.
C12_MessageByStrippedLength == [][MessageByStrippedLength]_vars

\* After a stored notification, a too short message was refused
C12_Witness ==
  /\ kind = "Notification"
  /\ last.op = "create"
  /\ last.error.message = <<"Message must be at least 3 characters">>
  /\ Len(created) >= 1
  /\ Len(issued) > Len(created)

\* ------------------------------------------------------------------------
\* Entity methods
\* ------------------------------------------------------------------------

\* due_date is set, lies strictly before the clock reading t, and the
\* status is not done
DueAndOpen(self, t) ==
  /\ self.due_date # NoTime
  /\ self.due_date[1] < t
  /\ self.status # "done"

\* C13: is_overdue() is true exactly when due_date is set, is strictly
\* before the current time and the status is not done; after mark_as_done()
\* an overdue task is no longer overdue, whatever its due date
C13_IsOverdue ==
  kind = "Task" =>
    /\ \A t \in 0..MaxTime : Task_is_overdue(obj, t) = DueAndOpen(obj, t)
    /\ last.op = "is_overdue" => last.ret = DueAndOpen(obj, now)
    /\ last.op = "mark_as_done" =>
         /\ obj.status = "done"
         /\ \A t \in 0..MaxTime : ~Task_is_overdue(obj, t)

\* a task was overdue, was marked done after its due date, and is_overdue()
\* then answered false
C13_Witness ==
  /\ kind = "Task"
  /\ last.op = "is_overdue"
  /\ last.ret = FALSE
  /\ obj.status = "done"
  /\ obj.due_date # NoTime
  /\ obj.completed_at # NoTime
  /\ obj.due_date[1] < obj.completed_at[1]

\* C14: after mark_as_read(), called any number of times from any starting
\* status, the status is read, and every call sets updated_at to the
\* current time, also when the status was read already
C14_MarkAsRead ==
  (kind = "Notification" /\ last.op = "mark_as_read") =>
    /\ obj.status = "read"
    /\ obj.updated_at = now

\* mark_as_read() was called after the clock had run on
C14_Witness ==
  /\ kind = "Notification"
  /\ last.op = "mark_as_read"
  /\ obj.status = "read"
  /\ obj.updated_at = MaxTime
  /\ obj.created_at < obj.updated_at

\* C15 as stated: the owner of every project is among its members
C15_OwnerAlwaysMember ==
  kind = "Project" => In(obj.owner_id, obj.members)

\* remove_member(owner_id) returns false and leaves the members as they are
RemoveOwnerRefused ==
  \A u \in MemberIds :
    (last'.op = "remove_member" /\ ProjectRemoveMember(u) /\ u = obj.owner_id) =>
      /\ last'.ret = FALSE
      /\ obj'.members = obj.members

\* C15: the owner of a project constructed with a non-zero owner_id stays
\* among its members through add_member and remove_member (a project
\* constructed with owner_id 0 starts with no members); remove_member(owner_id)
\* always returns false and leaves members unchanged
C15_OwnerStaysMember ==
  /\ [](kind = "Project" /\ obj.owner_id # 0 => In(obj.owner_id, obj.members))
  /\ [][RemoveOwnerRefused]_vars

\* every user is a member of an owned project and a removal was refused: the
\* one removal that is refused for a member is the owner's
C15_Witness ==
  /\ kind = "Project"
  /\ obj.owner_id # 0
  /\ \A u \in MemberIds : In(u, obj.members)
  /\ last.op = "remove_member"
  /\ last.ret = FALSE

\* ------------------------------------------------------------------------
\* Stored tags and notifications
\* ------------------------------------------------------------------------

\* The place of a stored entity in insertion order
Pos(entity) == CHOOSE p \in 1..Len(items) : items[p].v = entity

Min(a, b) == IF a <= b THEN a ELSE b

\* r is what the claim promises for get_popular_tags(limit)
PopularContract(r, limit) ==
  /\ Len(r) = Min(limit, count(Self))
  /\ \A i \in 1..Len(r) : \E p \in 1..Len(items) : items[p].v = r[i]
  /\ \A i, j \in 1..Len(r) :
       i < j => /\ r[i] # r[j]
                /\ r[i].usage_count >= r[j].usage_count
                /\ r[i].usage_count = r[j].usage_count => Pos(r[i]) < Pos(r[j])
  /\ \A p \in 1..Len(items) :
       (\A i \in 1..Len(r) : r[i] # items[p].v) =>
         \A i \in 1..Len(r) : r[i].usage_count >= items[p].v.usage_count

PopularTagsRanked ==
  kind = "Tag" =>
    \A limit \in Limits :
      limit >= 0 => PopularContract(TagRepository_get_popular_tags(Self, limit), limit)

PopularTagsReadOnly ==
  (last'.op = "get_popular_tags" /\ \E l \in Limits : GetPopularTags(l)) =>
    /\ items' = items
    /\ next_id' = next_id

\* C16: for every limit >= 0, get_popular_tags(limit) returns
\* min(limit, count()) stored tags in non-increasing order of usage_count,
\* no tag left out has a larger usage_count than a tag returned, tags of
\* equal usage_count keep their insertion order, and the call leaves the
\* repository as it was
C16_PopularTags == []PopularTagsRanked /\ [][PopularTagsReadOnly]_vars

\* the top-1 tag was asked for and is the second tag stored, which has been
\* used more than the first
C16_Witness ==
  /\ kind = "Tag"
  /\ last.op = "get_popular_tags"
  /\ Len(items) = 2
  /\ Len(last.ret) = 1
  /\ last.ret[1] = items[2].v
  /\ items[2].v.usage_count > items[1].v.usage_count

\* what mark_as_read (to = "read") and archive (to = "archived") of
\* notification i owe: NotFoundError and no change for an id not stored,
\* else the notification in its new status, returned, and no other changed
MarkContract(i, to) ==
  IF i \notin DictKeys(items)
  THEN /\ last'.error.type = "NotFoundError"
       /\ last'.error.error_code = "NOT_FOUND"
       /\ last'.error.details.resource_type = "Notification"
       /\ items' = items
  ELSE /\ last'.error = NoError
       /\ last'.ret = get(SelfNext, i)
       /\ last'.ret.status = to
       /\ last'.ret.id = get(Self, i).id
       /\ DictKeys(items') = DictKeys(items)
       /\ \A j \in DictKeys(items) : j # i => get(SelfNext, j) = get(Self, j)

MarkAndArchiveContract ==
  \A i \in StoredIds :
    /\ (last'.op = "mark_as_read" /\ MarkAsRead(i)) => MarkContract(i, "read")
    /\ (last'.op = "archive" /\ Archive(i)) => MarkContract(i, "archived")

\* C17: NotificationRepository.mark_as_read(id) and archive(id) raise
\* NotFoundError (NOT_FOUND, resource_type "Notification") for an id not
\* stored and change no notification; for a stored id they set its status to
\* read / archived, return it, and change no other notification
C17_MarkAndArchive == [][MarkAndArchiveContract]_vars

\* one notification was read, another archived, and a further archive of an
\* id not stored was refused
C17_Witness ==
  /\ kind = "Notification"
  /\ Len(items) = 2
  /\ items[1].v.status = "read"
  /\ items[2].v.status = "archived"
  /\ last.op = "archive"
  /\ last.error.type = "NotFoundError"

\* the stored notifications of user u that are unread
Unread(its, u) ==
  {p \in 1..Len(its) : its[p].v.user_id = u /\ its[p].v.status = "unread"}

UnreadCounted ==
  kind = "Notification" =>
    \A u \in StoredUserIds :
      /\ NotificationRepository_get_unread_count(Self, u) = Cardinality(Unread(items, u))
      /\ NotificationRepository_get_unread_count(Self, u)
           = Len(NotificationRepository_find_unread(Self, u))

\* the unread count of user u moves by d in this step, no other user's moves
UnreadMoves(u, d) ==
  \A w \in StoredUserIds :
    NotificationRepository_get_unread_count(SelfNext, w)
      = NotificationRepository_get_unread_count(Self, w) + (IF w = u THEN d ELSE 0)

UnreadSteps ==
  /\ \A u \in StoredUserIds, m \in StoredMessages :
       (/\ last'.op = "create"
        /\ NotificationCreate(u, m, "task_assigned")
        /\ last'.error.type = "none") => UnreadMoves(u, 1)
  /\ \A i \in StoredIds :
       (/\ last'.op \in {"mark_as_read", "archive"}
        /\ MarkAsRead(i) \/ Archive(i)
        /\ i \in DictKeys(items)
        /\ get(Self, i).status = "unread") =>
         UnreadMoves(get(Self, i).user_id, 0 - 1)

\* C18: get_unread_count(u) is the number of stored unread notifications of
\* user u and the length of find_unread(u); a successful create for u raises
\* it by one, mark_as_read or archive of an unread notification of u lowers
\* it by one, and the counts of other users stay
C18_UnreadCount == []UnreadCounted /\ [][UnreadSteps]_vars

\* two notifications of different users are stored, one of them was read,
\* and the count then asked for is 1
C18_Witness ==
  /\ kind = "Notification"
  /\ Len(items) = 2
  /\ items[1].v.user_id # items[2].v.user_id
  /\ items[1].v.status = "read"
  /\ items[2].v.status = "unread"
  /\ last.op = "get_unread_count"
  /\ last.ret = 1

\* ------------------------------------------------------------------------
\* Keys and ids; the order of the checks in create
\* ------------------------------------------------------------------------

\* Each stored key maps to an entity whose id is the key
KeyIsId == \A p \in 1..Len(items) : items[p].v.id = items[p].k

\* C19 as stated: through create, update and delete each stored key k maps
\* to an entity whose id is k, so no two entries hold entities of one id
C19_KeyIsId ==
  /\ KeyIsId
  /\ \A p, q \in 1..Len(items) : p # q => items[p].v.id # items[q].v.id

\* The step is update(i, e) of a stored key i with an entity of another id
ForeignUpdate ==
  /\ last'.op = "update"
  /\ \E i \in DictKeys(items) : \E e \in UpdateItems[kind] :
       Update(i, e) /\ e.id # i

KeyIsIdKept == (KeyIsId /\ ~ForeignUpdate) => KeyIsId'

\* C19: a new repository maps each stored key k to an entity whose id is k,
\* and create, delete and update(k, entity) with entity.id = k keep it so;
\* update(k, entity) of a stored k with entity.id # k stores that entity
\* under k, after which two entries can hold entities of one id
C19_KeyIsIdKept == KeyIsId /\ [][KeyIsIdKept]_vars

\* an entity was replaced under its own id in a repository of two entries
C19_Witness ==
  /\ last.op = "update"
  /\ last.ret = TRUE
  /\ Len(items) >= 2
  /\ KeyIsId
  /\ ~Validate(items[1].v).ok

\* create was refused for the reason validate() gives, which is not the
\* duplicate's, and nothing was stored
ValidationFailureWins(v, duplicate) ==
  /\ Rejected(v.error)
  /\ last'.error.message # duplicate
  /\ items' = items

ValidatedBeforeScan ==
  /\ \A n \in TagNames :
       (/\ last'.op = "create"
        /\ TagCreate(n)
        /\ ~TagValidate(Tag(next_id, n)).ok
        /\ NameStored(n)) =>
         ValidationFailureWins(TagValidate(Tag(next_id, n)),
                               <<"Tag '", n, "' already exists">>)
  /\ \A n \in CategoryNames, c \in Colors :
       (/\ last'.op = "create"
        /\ CategoryCreate(n, c)
        /\ ~CategoryValidate(Category(next_id, n, c)).ok
        /\ NameStored(n)) =>
         ValidationFailureWins(CategoryValidate(Category(next_id, n, c)),
                               <<"Category '", n, "' already exists">>)

\* C20: TagRepository.create and CategoryRepository.create validate before
\* they scan for duplicates: a request that is invalid and whose name is
\* stored already, ignoring case, fails with the validation failure, not the
\* duplicate failure, and nothing is stored
C20_ValidatedBeforeScan == [][ValidatedBeforeScan]_vars

\* a category repository holds names a and b in some case, and a create
\* whose name passed the name checks was refused for its color
C20_Witness ==
  /\ kind = "Category"
  /\ \E i, j \in 1..Len(items) :
       /\ lower(items[i].v.name) = <<"a">>
       /\ lower(items[j].v.name) = <<"b">>
  /\ last.op = "create"
  /\ last.error.message = <<"Invalid hex color format">>

\* ------------------------------------------------------------------------
\* The contract of create across the repositories
\* ------------------------------------------------------------------------

\* A create call takes its id from get_next_id and either refuses with the
\* validation failure, storing nothing, or stores the valid entity under the
\* id it took, so that get(entity.id) returns it
CreateAllocatesValidatesStores ==
  last'.op = "create" =>
    /\ next_id' = next_id + 1
    /\ \/ /\ last'.error.type = "ValidationError"
          /\ items' = items
       \/ /\ last'.error.type = "none"
          /\ last'.ret.id = next_id
          /\ Validate(last'.ret).ok
          /\ get(SelfNext, last'.ret.id) = last'.ret

\* C21: the create of every concrete repository (Task, Project, Category,
\* Tag, Notification, Alert) obtains the id from get_next_id, runs
\* validate(), refuses to store on validation failure, and on success stores
\* the entity so that get(entity.id) returns it
C21_CreateContract == [][CreateAllocatesValidatesStores]_vars

\* ------------------------------------------------------------------------
\* Identity of an entity
\* ------------------------------------------------------------------------

\* A newly constructed entity has the id it was constructed with and the
\* created_at supplied, or the construction time when none was supplied
ConstructedAsAsked ==
  last.op = "init" =>
    /\ obj.id = PyInt(last.ret.model_id)
    /\ obj.created_at = (IF last.ret.created_at = NoneVal
                         THEN PyDatetime(now) ELSE last.ret.created_at)

\* No method changes id or created_at
IdentityKept ==
  /\ obj'.id = obj.id
  /\ obj'.created_at = obj.created_at

\* C22: an entity of any kind (Task, Project, Category, Tag, Notification,
\* SubTask) constructed with identifier n has id n and created_at equal to
\* the supplied timestamp, or to the construction time when none is
\* supplied, and no later method changes id or created_at
C22_IdentityAsConstructed == []ConstructedAsAsked /\ [][IdentityKept]_vars

\* ------------------------------------------------------------------------
\* Task transitions and project membership
\* ------------------------------------------------------------------------

\* mark_as_done and mark_as_in_progress do what they say from every status
TransitionsUnguarded ==
  /\ (last'.op = "mark_as_in_progress" /\ TaskMarkAsInProgress) =>
       /\ obj'.status = "in_progress"
       /\ obj'.updated_at = now'
       /\ last'.error = NoError
  /\ (last'.op = "mark_as_done" /\ TaskMarkAsDone) =>
       /\ obj'.status = "done"
       /\ obj'.completed_at # NoTime
       /\ now <= obj'.completed_at[1]
       /\ obj'.completed_at[1] <= now'
       /\ obj'.updated_at = now'
       /\ last'.error = NoError

\* both calls can be made in every status
TransitionsEnabled ==
  kind = "Task" =>
    /\ obj.status \in TaskStatuses
    /\ ENABLED TaskMarkAsInProgress
    /\ ENABLED TaskMarkAsDone

\* C23: from every status mark_as_in_progress sets status in_progress and
\* mark_as_done sets status done and completed_at to the current time; both
\* set updated_at, and neither is rejected in any status
C23_TransitionsUnguarded == []TransitionsEnabled /\ [][TransitionsUnguarded]_vars

\* a task that was marked done was then marked in progress
C23_Witness ==
  /\ kind = "Task"
  /\ last.op = "mark_as_in_progress"
  /\ obj.status = "in_progress"
  /\ obj.completed_at # NoTime

\* what add_member(u) and remove_member(u) return and change
MembershipContract ==
  \A u \in MemberIds :
    /\ (last'.op = "add_member" /\ ProjectAddMember(u)) =>
         IF In(u, obj.members)
         THEN /\ last'.ret = FALSE
              /\ obj'.members = obj.members
              /\ obj'.updated_at = obj.updated_at
         ELSE /\ last'.ret = TRUE
              /\ obj'.members = Append(obj.members, u)
    /\ (last'.op = "remove_member" /\ ProjectRemoveMember(u)) =>
         IF u = obj.owner_id \/ ~In(u, obj.members)
         THEN /\ last'.ret = FALSE
              /\ obj'.members = obj.members
              /\ obj'.updated_at = obj.updated_at
         ELSE /\ last'.ret = TRUE
              /\ obj'.members = SelectSeq(obj.members, LAMBDA m : m # u)
              /\ Len(obj'.members) = Len(obj.members) - 1

\* C24: add_member(u) returns false and leaves members and updated_at
\* unchanged when u is a member already, otherwise appends u and returns
\* true; remove_member(u) returns false and leaves members and updated_at
\* unchanged when u is the owner or not a member, otherwise removes u and
\* returns true
C24_Membership == [][MembershipContract]_vars

\* a project of a later time refused to add a member it has: its
\* updated_at is still the time of construction
C24_Witness ==
  /\ kind = "Project"
  /\ last.op = "add_member"
  /\ last.ret = FALSE
  /\ now = MaxTime
  /\ obj.updated_at < now
  /\ Len(obj.members) >= 1

\* completed_at is null in a new task; it is set by mark_as_done, changed by
\* no other call, and never cleared
CompletedAtSteps ==
  /\ (last'.op = "mark_as_done" /\ TaskMarkAsDone) => obj'.completed_at # NoTime
  /\ (kind = "Task" /\ last'.op # "mark_as_done") =>
       obj'.completed_at = obj.completed_at
  /\ (kind = "Task" /\ obj.completed_at # NoTime) => obj'.completed_at # NoTime

NewTaskNotCompleted ==
  (kind = "Task" /\ last.op = "init") => obj.completed_at = NoTime

\* C27: completed_at is non-null exactly when mark_as_done has been called:
\* null in every new task, also one constructed with status done, set by
\* mark_as_done, and not cleared by a later mark_as_in_progress
C27_CompletedAt == []NewTaskNotCompleted /\ [][CompletedAtSteps]_vars

\* a task was marked done and, at a later time, marked in progress:
\* completed_at still holds the earlier time
C27_Witness ==
  /\ kind = "Task"
  /\ last.op = "mark_as_in_progress"
  /\ obj.status = "in_progress"
  /\ obj.completed_at # NoTime
  /\ obj.completed_at[1] < obj.updated_at

\* no user id occurs twice in members
MembersDistinct ==
  kind = "Project" =>
    \A i, j \in 1..Len(obj.members) : i # j => obj.members[i] # obj.members[j]

RemovedIsGone ==
  \A u \in MemberIds :
    (/\ last'.op = "remove_member"
     /\ ProjectRemoveMember(u)
     /\ last'.ret = TRUE) => ~In(u, obj'.members)

\* C30: after any sequence of add_member and remove_member no user id is in
\* members more than once, and a user removed by a successful remove_member
\* is no longer a member
C30_MembersDistinct == []MembersDistinct /\ [][RemovedIsGone]_vars

\* a member was removed from a project that still has two members
C30_Witness ==
  /\ kind = "Project"
  /\ last.op = "remove_member"
  /\ last.ret = TRUE
  /\ Len(obj.members) = 2

\* ------------------------------------------------------------------------
\* Tags of a task
\* ------------------------------------------------------------------------

\* The calls add_tag(tags[1]), add_tag(tags[2]), ... made on a task
TagCalls == UNION {[1..n -> TaskTags] : n \in 0..3}

RECURSIVE AddTags(_, _)
AddTags(task, tags) ==
  IF tags = << >> THEN task
  ELSE Task_add_tag(AddTags(task, SubSeq(tags, 1, Len(tags) - 1)),
                    tags[Len(tags)], now)

\* The distinct elements of tags in the order of their first occurrence
RECURSIVE FirstOccurrences(_)
FirstOccurrences(tags) ==
  IF tags = << >> THEN << >>
  ELSE LET front == FirstOccurrences(SubSeq(tags, 1, Len(tags) - 1))
       IN  IF \E i \in 1..Len(front) : front[i] = tags[Len(tags)]
           THEN front ELSE Append(front, tags[Len(tags)])

\* TaskRepository.create of valid arguments returns a task, and add_tag calls
\* on it leave the distinct tags in the order of their first insertion
CreatedTaskTags ==
  \A t \in TaskTitles, d \in TaskDescriptions :
    (/\ last'.op = "create"
     /\ TaskCreate(t, d)
     /\ TaskValidate(Task(next_id, t, d)).ok) =>
      /\ last'.error.type = "none"
      /\ \A calls \in TagCalls :
           AddTags(last'.ret, calls).tags = FirstOccurrences(calls)

\* C25: for every task created through TaskRepository.create, after any
\* sequence of add_tag calls the tag list holds the distinct tags, without
\* duplicates, in the order of their first insertion
C25_CreatedTaskTags == [][CreatedTaskTags]_vars

\* ------------------------------------------------------------------------
\* Ids of refused requests
\* ------------------------------------------------------------------------

\* A create refused for validation or as a duplicate stores nothing and
\* uses up the id next_id
FailedCreateUsesId ==
  (last'.op = "create" /\ last'.error.type = "ValidationError") =>
    /\ items' = items
    /\ next_id' = next_id + 1
    /\ issued' = Append(issued, next_id)
    /\ created' = created

\* No id is issued twice, and an entity's id was issued to its own create
\* call: an id issued to a refused request belongs to no entity
IdsIssuedOnce ==
  /\ \A i, j \in 1..Len(issued) : i < j => issued[i] < issued[j]
  /\ \A i \in 1..Len(issued) : issued[i] < next_id
  /\ \A i, j \in 1..Len(created) : i < j => created[i] < created[j]
  /\ \A i \in 1..Len(created) : \E j \in 1..Len(issued) : issued[j] = created[i]

\* C26: a create that fails validation, or fails as a duplicate name in a
\* Tag or Category repository, leaves the stored mapping unchanged and
\* advances next_id by exactly one, so the id of the failed request goes to
\* no later entity and the ids of stored entities can have gaps
C26_FailedCreateUsesId == []IdsIssuedOnce /\ [][FailedCreateUsesId]_vars

\* the first entity created has an id above 1, and a further create was
\* refused as a duplicate
C26_Witness ==
  /\ kind \in {"Tag", "Category"}
  /\ Len(created) >= 1
  /\ created[1] > 1
  /\ last.op = "create"
  /\ last.error.type = "ValidationError"
  /\ Len(last.error.message) = 3

\* ------------------------------------------------------------------------
\* Notification status and tag usage over time
\* ------------------------------------------------------------------------

\* A stored notification that is not unread is not unread after the step
NotBackToUnread ==
  kind = "Notification" =>
    \A k \in DictKeys(items) \cap DictKeys(items') :
      get(Self, k).status # "unread" => get(SelfNext, k).status # "unread"

\* mark_as_read and archive of a stored notification succeed in every
\* status and leave the status they name
LastOperationWins ==
  \A i \in DictKeys(items) :
    /\ (last'.op = "mark_as_read" /\ MarkAsRead(i)) =>
         last'.error = NoError /\ get(SelfNext, i).status = "read"
    /\ (last'.op = "archive" /\ Archive(i)) =>
         last'.error = NoError /\ get(SelfNext, i).status = "archived"

\* C28: a notification whose status has left unread never returns to unread
\* through mark_as_read and archive; archive after read and mark_as_read
\* after archive are permitted and set the status of the last operation
C28_NeverUnreadAgain == [][NotBackToUnread /\ LastOperationWins]_vars

\* a notification was touched after its creation and is read; the other
\* stored one is archived and none is unread
C28_Witness ==
  /\ kind = "Notification"
  /\ Len(items) = 2
  /\ items[1].v.status = "archived"
  /\ items[2].v.status = "read"
  /\ last.op = "mark_as_read"
  /\ last.error.type = "none"
  /\ last.ret = items[2].v
  /\ last.ret.created_at < last.ret.updated_at

UsageNotNegative ==
  kind = "Tag" => \A p \in 1..Len(items) : items[p].v.usage_count >= 0

DecrementContract ==
  \A i \in StoredIds :
    (last'.op = "decrement_usage" /\ TagDecrementUsage(i)) =>
      IF get(Self, i).usage_count = 0
      THEN get(SelfNext, i) = get(Self, i)
      ELSE get(SelfNext, i).usage_count = get(Self, i).usage_count - 1

\* C29: after any sequence of increment_usage and decrement_usage the
\* usage_count of a tag is at least 0; decrement_usage at 0 changes neither
\* usage_count nor updated_at, and otherwise lowers usage_count by one
C29_UsageNotNegative == []UsageNotNegative /\ [][DecrementContract]_vars

\* decrement_usage was called on a tag that is at usage 0 and has not been
\* touched since an earlier time
C29_Witness ==
  /\ kind = "Tag"
  /\ Len(items) = 1
  /\ last.op = "decrement_usage"
  /\ items[1].v.usage_count = 0
  /\ items[1].v.updated_at < now

====
